---- MODULE Spec2Model ----
(***************************************************************************)
(* Model of package eye of sauron: a Trail follows the files a Watcher     *)
(* reports, one Follower goroutine per followed file, with a periodic      *)
(* sweep (unfollowOldFiles) that evicts stale files.                       *)
(*                                                                         *)
(* Paths are kept in the state as indexes into FileNames; the names are    *)
(* sequences of characters so that filepath.Dir, filepath.Base and the     *)
(* regular expressions are computed, not assumed.  A handle (a tail.Tail)   *)
(* is the index of its Follower in `followers`.                            *)
(***************************************************************************)
EXTENDS Integers, Sequences, FiniteSets, TLC

(***************************************************************************)
(* Bounds of the model.                                                    *)
(***************************************************************************)
\* followFile calls (Follower goroutines) over the Trail's life
MaxFollowers == 2
\* lines a file can hold
MaxLines == 2
\* lines every file holds before the Trail is created
InitLines == 1
\* largest modification age os.Stat can report (in units of the durations)
MaxAge == 2
\* Stop calls counted per tailer; MaxStops stands for "MaxStops or more"
MaxStops == 2
\* calls of Follow on a Trail whose event loop has returned
MaxRestarts == 1

(***************************************************************************)
(* Strings, paths and regular expressions.                                 *)
(***************************************************************************)
Range(s) == {s[i] : i \in 1..Len(s)}

Min(a, b) == IF a < b THEN a ELSE b

\* "/app/logs/a.log", "/app/logs/b.log", "/app/logs/a.tmp", "/other/b.log"
FileNames ==
  << <<"/","a","p","p","/","l","o","g","s","/","a",".","l","o","g">>,
     <<"/","a","p","p","/","l","o","g","s","/","b",".","l","o","g">>,
     <<"/","a","p","p","/","l","o","g","s","/","a",".","t","m","p">>,
     <<"/","o","t","h","e","r","/","b",".","l","o","g">> >>

Paths == 1..Len(FileNames)

\* the files under the directory the Watcher watches (/app/logs)
Watched == {p \in Paths : p <= 3}

\* index of the last "/" of s, 0 when it has none
LastSlash(s) ==
  LET at == {i \in 1..Len(s) : s[i] = "/"}
  IN  IF at = {} THEN 0 ELSE CHOOSE i \in at : \A j \in at : j <= i

\* filepath.Dir of a clean path
Dir(s) ==
  LET k == LastSlash(s)
  IN  IF k = 0 THEN <<".">> ELSE IF k = 1 THEN <<"/">> ELSE SubSeq(s, 1, k - 1)

\* filepath.Base of a clean path
Base(s) ==
  IF Len(s) = 0 THEN <<".">> ELSE SubSeq(s, LastSlash(s) + 1, Len(s))

\* a *regexp.Regexp: nil, or a literal with an optional trailing "$"
NilReg == [isNil |-> TRUE, lit |-> <<>>, atEnd |-> FALSE]
\* regexp.MustCompile("/app/logs")
AppLogsReg == [isNil |-> FALSE, lit |-> <<"/","a","p","p","/","l","o","g","s">>, atEnd |-> FALSE]
\* regexp.MustCompile(`\.log$`)
DotLogReg == [isNil |-> FALSE, lit |-> <<".","l","o","g">>, atEnd |-> TRUE]
\* regexp.MustCompile(`\.tmp$`)
DotTmpReg == [isNil |-> FALSE, lit |-> <<".","t","m","p">>, atEnd |-> TRUE]

\* Regexp.MatchString: an unanchored search for the literal
MatchString(re, s) ==
  \E i \in 1..(Len(s) - Len(re.lit) + 1) :
    /\ SubSeq(s, i, i + Len(re.lit) - 1) = re.lit
    /\ re.atEnd => i + Len(re.lit) - 1 = Len(s)

(***************************************************************************)
(* State.                                                                  *)
(***************************************************************************)
VARIABLES
  options,      \* Trail.options: the regexps and the two durations
  files,        \* files[p]: the number of lines of file p
  followState,  \* "new", "following" (Follow returned nil), "failed" (returned err)
  watcher,      \* the Watcher: [watching, ended]
  loopPc,       \* the goroutine of Follow: "none", "running", "shutdown", "stopping", "exited"
  endPc,        \* the caller of End: "idle", or "sending" (blocked in t.done <- true)
  endReturned,  \* End calls that have returned
  followers,    \* the goroutines followFile started, in the order of the calls
  tails,        \* Trail.tails
  sweepPc,      \* the scheduler of AddUnfollower: "idle", "loop" (in unfollowOldFiles)
  sweepI,       \* the index i of unfollowOldFiles (from 1)
  ignored,      \* the last standalone call of ignore: [called, path, stat, result]
  walked        \* what t.watcher.Walk() returned to Follow: "none" yet, "ok", "error"

vars == <<options, files, followState, watcher, loopPc, endPc, endReturned,
          followers, tails, sweepPc, sweepI, ignored, walked>>

Ages == 0..MaxAge

\* what os.Stat(path) can return: an error (the file is gone), or the file's
\* age now - ModTime (0 stands for a modification time that is not before now)
StatError == [ok |-> FALSE, age |-> 0]

Stat == {StatError} \cup {[ok |-> TRUE, age |-> a] : a \in Ages}

\* files[p] of a file that has been removed
Gone == 0 - 1

(***************************************************************************)
(* The functions of trail.go.                                              *)
(***************************************************************************)
\* Trail.isOldToIgnore, given what os.Stat returned
isOldToIgnore(opts, st) ==
  IF st.ok THEN st.age > opts.FileIgnoreDuration ELSE FALSE

\* the regexps of the options
Regs == {NilReg, AppLogsReg, DotLogReg, DotTmpReg}

\* re.MatchString(filepath.Dir(path)) and re.MatchString(filepath.Base(path))
\* for the path FileNames[p], computed once
MatchDir == [re \in Regs |-> [p \in Paths |-> MatchString(re, Dir(FileNames[p]))]]

MatchBase == [re \in Regs |-> [p \in Paths |-> MatchString(re, Base(FileNames[p]))]]

\* ignore with the age test grouped under FileIgnoreReg != nil:
\* A || B || (C != nil && (match || old))
ignoreGrouped(opts, p, st) ==
  \/ (~opts.PathReg.isNil /\ ~MatchDir[opts.PathReg][p])
  \/ (~opts.FileReg.isNil /\ ~MatchBase[opts.FileReg][p])
  \/ ( /\ ~opts.FileIgnoreReg.isNil
       /\ (MatchBase[opts.FileIgnoreReg][p] \/ isOldToIgnore(opts, st)) )

\* ignore(t, FileNames[p]), given what os.Stat returns if it is called
ignore(opts, p, st) ==
  \/ (~opts.PathReg.isNil /\ ~MatchDir[opts.PathReg][p])
  \/ (~opts.FileReg.isNil /\ ~MatchBase[opts.FileReg][p])
  \/ ( \/ (~opts.FileIgnoreReg.isNil /\ MatchBase[opts.FileIgnoreReg][p])
       \/ isOldToIgnore(opts, st) )

\* the durations of the options, in the unit of the ages
Durations == {0, 1}

\* the TrailOptions a Trail can be built with
AllOptions ==
  [PathReg : {NilReg, AppLogsReg}, FileReg : {NilReg, DotLogReg},
   FileIgnoreReg : {NilReg, DotTmpReg}, FileIgnoreDuration : Durations,
   FileFollowDuration : Durations]

\* isOlderThanADay with >= for >
isOlderOrEqual(opts, age) == age >= opts.FileFollowDuration

\* Trail.isOlderThanADay, given the age now - tm
isOlderThanADay(opts, age) == age > opts.FileFollowDuration

\* the goroutine followFile starts: it has yet to call tail.TailFile
NewFollower(path, isNew) ==
  [path |-> path, isNew |-> isNew, pc |-> "open", opened |-> FALSE,
   start |-> 0, pos |-> 0, stops |-> 0, snap |-> <<>>]

\* followFile with the isNew argument dropped: every file is followed as an
\* existing one
followFileExisting(fs, path, isNew) == Append(fs, NewFollower(path, FALSE))

\* Trail.followFile: one more goroutine, nothing else changes
followFile(fs, path, isNew) == Append(fs, NewFollower(path, isNew))

\* TailFile with the Location left out of both configurations
SeekOffsetNoLocation(isNew, len) == 0

\* the offset tail.TailFile starts at: Location {Offset: 0, Whence: 2} is the
\* end of the file, no Location is its start
SeekOffset(isNew, len) == IF isNew THEN 0 ELSE len

\* tail.Tail.Stop on handle h
Stop(fs, h) == [fs EXCEPT ![h].stops = Min(@ + 1, MaxStops)]

\* the loop of Trail.unfollowFile from index k (from 1) of the ranged slice orig:
\* a handle of that name is stopped, and t.tails becomes
\* append(t.tails[:i], t.tails[i:]...)
RECURSIVE unfollowLoop(_, _, _, _, _)
unfollowLoop(k, orig, tl, fs, name) ==
  IF k > Len(orig) THEN [tails |-> tl, followers |-> fs]
  ELSE IF fs[orig[k]].path = name
       THEN unfollowLoop(k + 1, orig,
                         SubSeq(tl, 1, k - 1) \o SubSeq(tl, k, Len(tl)),
                         Stop(fs, orig[k]), name)
       ELSE unfollowLoop(k + 1, orig, tl, fs, name)

\* Trail.unfollowFile
unfollowFile(tl, fs, name) == unfollowLoop(1, tl, tl, fs, name)

\* the loop of Follow over the files Walk returned, from index k: a file that
\* ignore passes is followed as an existing file
RECURSIVE followListed(_, _, _, _)
followListed(k, listing, sts, fs) ==
  IF k > Len(listing) THEN fs
  ELSE followListed(k + 1, listing, sts,
         IF ignore(options, listing[k], sts[listing[k]])
         THEN fs ELSE followFile(fs, listing[k], FALSE))

(***************************************************************************)
(* Construction.                                                           *)
(***************************************************************************)
\* NewTrailWithOptions with the options of a watch of the *.log files of /app/logs
WatchOptions ==
  [PathReg |-> AppLogsReg, FileReg |-> DotLogReg, FileIgnoreReg |-> DotTmpReg,
   FileIgnoreDuration |-> 1, FileFollowDuration |-> 1]

InitFiles == [p \in Paths |-> InitLines]

InitTrail ==
  /\ followState = "new"
  /\ watcher = [watching |-> FALSE, ended |-> FALSE]
  /\ loopPc = "none"
  /\ endPc = "idle"
  /\ endReturned = 0
  /\ followers = <<>>
  /\ tails = <<>>
  /\ sweepPc = "idle"
  /\ sweepI = 1
  /\ ignored = [called |-> FALSE, path |-> 1, stat |-> StatError,
                result |-> FALSE]
  /\ walked = "none"

Init ==
  /\ options = WatchOptions
  /\ files = InitFiles
  /\ InitTrail

(***************************************************************************)
(* Follow.                                                                 *)
(***************************************************************************)
\* the sequence of the members of S in ascending order
RECURSIVE Ascending(_)
Ascending(S) ==
  IF S = {} THEN <<>>
  ELSE LET m == CHOOSE x \in S : \A y \in S : x <= y
       IN  <<m>> \o Ascending(S \ {m})

\* what Watcher.Walk can return without an error
Listings == {Ascending(S) : S \in SUBSET Watched}

\* Follow when Walk returns listing and os.Stat returns sts[p] for file p:
\* follow the listed files, start the event loop, call Watch, return nil
FollowOk(listing, sts) ==
  /\ followState = "new"
  /\ Len(followListed(1, listing, sts, followers)) <= MaxFollowers
  /\ followers' = followListed(1, listing, sts, followers)
  /\ loopPc' = "running"
  /\ watcher' = [watcher EXCEPT !.watching = TRUE]
  /\ followState' = "following"
  /\ walked' = "ok"
  /\ UNCHANGED <<options, files, endPc, endReturned, tails, sweepPc, sweepI, ignored>>

\* Follow when Walk fails, without the return: the error is logged and Follow
\* goes on to start the event loop and to call Watch
FollowErrGoesOn ==
  /\ followState = "new"
  /\ followState' = "following"
  /\ walked' = "error"
  /\ loopPc' = "running"
  /\ watcher' = [watcher EXCEPT !.watching = TRUE]
  /\ UNCHANGED <<options, files, endPc, endReturned, followers, tails, sweepPc,
                 sweepI, ignored>>

\* Follow when Walk fails: return the error
FollowErr ==
  /\ followState = "new"
  /\ followState' = "failed"
  /\ walked' = "error"
  /\ UNCHANGED <<options, files, watcher, loopPc, endPc, endReturned, followers,
                 tails, sweepPc, sweepI, ignored>>

(***************************************************************************)
(* The event loop: the goroutine Follow starts.                            *)
(***************************************************************************)
Ops == {"Create", "Remove", "Rename", "Write", "Other"}

\* the event switch with a Write event handled as a Create event is
HandleEventWriteFollows(p, op, st) ==
  /\ loopPc = "running"
  /\ watcher.watching /\ ~watcher.ended
  /\ IF ignore(options, p, st)
     THEN UNCHANGED <<followers, tails>>
     ELSE CASE op \in {"Create", "Write"} ->
                 /\ Len(followers) < MaxFollowers
                 /\ followers' = followFile(followers, p, TRUE)
                 /\ UNCHANGED tails
            [] op = "Remove" ->
                 LET r == unfollowFile(tails, followers, p)
                 IN  /\ tails' = r.tails
                     /\ followers' = r.followers
            [] OTHER -> UNCHANGED <<followers, tails>>
  /\ UNCHANGED <<options, files, followState, watcher, loopPc, endPc, endReturned,
                 sweepPc, sweepI, ignored, walked>>

\* case event := <-events: the Watcher sends op on path p and the loop handles
\* it; os.Stat returns st if ignore comes to call it
HandleEvent(p, op, st) ==
  /\ loopPc = "running"
  /\ watcher.watching /\ ~watcher.ended
  /\ IF ignore(options, p, st)
     THEN UNCHANGED <<followers, tails>>
     ELSE CASE op = "Create" ->
                 /\ Len(followers) < MaxFollowers
                 /\ followers' = followFile(followers, p, TRUE)
                 /\ UNCHANGED tails
            [] op = "Remove" ->
                 LET r == unfollowFile(tails, followers, p)
                 IN  /\ tails' = r.tails
                     /\ followers' = r.followers
            [] OTHER -> UNCHANGED <<followers, tails>>
  /\ UNCHANGED <<options, files, followState, watcher, loopPc, endPc, endReturned,
                 sweepPc, sweepI, ignored, walked>>

\* End: log, then block in t.done <- true
EndCall ==
  /\ endPc = "idle"
  /\ endPc' = "sending"
  /\ UNCHANGED <<options, files, followState, watcher, loopPc, endReturned,
                 followers, tails, sweepPc, sweepI, ignored, walked>>

\* the receive with End released only once the loop has ended the Watcher:
\* the send of End completes after t.watcher.End()
ReceiveDoneEndsWatcher ==
  /\ endPc = "sending"
  /\ loopPc = "running"
  /\ loopPc' = "stopping"
  /\ watcher' = [watching |-> FALSE, ended |-> TRUE]
  /\ endPc' = "idle"
  /\ endReturned' = endReturned + 1
  /\ UNCHANGED <<options, files, followState, followers, tails, sweepPc,
                 sweepI, ignored, walked>>

\* case <-t.done: the loop receives what End sends on the unbuffered channel,
\* and End returns
ReceiveDone ==
  /\ endPc = "sending"
  /\ loopPc = "running"
  /\ loopPc' = "shutdown"
  /\ endPc' = "idle"
  /\ endReturned' = endReturned + 1
  /\ UNCHANGED <<options, files, followState, watcher, followers, tails, sweepPc,
                 sweepI, ignored, walked>>

\* t.watcher.End()
StopWatcher ==
  /\ loopPc = "shutdown"
  /\ watcher' = [watching |-> FALSE, ended |-> TRUE]
  /\ loopPc' = "stopping"
  /\ UNCHANGED <<options, files, followState, endPc, endReturned, followers, tails,
                 sweepPc, sweepI, ignored, walked>>

\* Stop on every handle of tl from index k
RECURSIVE stopAll(_, _, _)
stopAll(k, tl, fs) ==
  IF k > Len(tl) THEN fs ELSE stopAll(k + 1, tl, Stop(fs, tl[k]))

\* for _, current := range t.tails { current.Stop() }, then return
StopTailers ==
  /\ loopPc = "stopping"
  /\ followers' = stopAll(1, tails, followers)
  /\ loopPc' = "exited"
  /\ UNCHANGED <<options, files, followState, watcher, endPc, endReturned, tails,
                 sweepPc, sweepI, ignored, walked>>

(***************************************************************************)
(* The Follower goroutines of followFile.                                  *)
(***************************************************************************)
\* tail.TailFile returns a tailer, positioned by the mode, and the goroutine
\* reads t.tails for t.tails = append(t.tails, current), which is not synchronised
TailFileOk(f) ==
  /\ followers[f].pc = "open"
  /\ LET off == SeekOffset(followers[f].isNew, files[followers[f].path])
     IN  followers' = [followers EXCEPT ![f].pc = "append", ![f].opened = TRUE,
                                        ![f].start = off, ![f].pos = off,
                                        ![f].snap = tails]
  /\ UNCHANGED <<options, files, followState, watcher, loopPc, endPc, endReturned,
                 tails, sweepPc, sweepI, ignored, walked>>

\* tail.TailFile returns an error: the goroutine returns
TailFileErr(f) ==
  /\ followers[f].pc = "open"
  /\ followers' = [followers EXCEPT ![f].pc = "done"]
  /\ UNCHANGED <<options, files, followState, watcher, loopPc, endPc, endReturned,
                 tails, sweepPc, sweepI, ignored, walked>>

\* t.tails = append(t.tails, current): the write of t.tails, what was read plus
\* the handle
WriteTails(f) ==
  /\ followers[f].pc = "append"
  /\ tails' = Append(followers[f].snap, f)
  /\ followers' = [followers EXCEPT ![f].pc = "lines", ![f].snap = <<>>]
  /\ UNCHANGED <<options, files, followState, watcher, loopPc, endPc, endReturned,
                 sweepPc, sweepI, ignored, walked>>

\* for line := range current.Lines: the next line of the file goes to the handler
HandleLine(f) ==
  /\ followers[f].pc = "lines"
  /\ followers[f].stops = 0
  /\ followers[f].pos < files[followers[f].path]
  /\ followers' = [followers EXCEPT ![f].pos = @ + 1]
  /\ UNCHANGED <<options, files, followState, watcher, loopPc, endPc, endReturned,
                 tails, sweepPc, sweepI, ignored, walked>>

\* current.Lines is closed (the tailer was stopped, or it gave up because its
\* file is gone): the goroutine returns
LinesClosed(f) ==
  /\ followers[f].pc = "lines"
  /\ followers' = [followers EXCEPT ![f].pc = "done"]
  /\ UNCHANGED <<options, files, followState, watcher, loopPc, endPc, endReturned,
                 tails, sweepPc, sweepI, ignored, walked>>

(***************************************************************************)
(* The sweep: the scheduler of AddUnfollower runs task every 10 seconds.   *)
(***************************************************************************)
\* task(t): unfollowOldFiles starts, i := 0
SweepStart ==
  /\ followState = "following"
  /\ sweepPc = "idle"
  /\ sweepPc' = "loop"
  /\ sweepI' = 1
  /\ UNCHANGED <<options, files, followState, watcher, loopPc, endPc, endReturned,
                 followers, tails, ignored, walked>>

\* the removal without the reslice: the elements are shifted and the last one
\* stays, twice in the slice
RemoveAtNoReslice(tl, i) ==
  SubSeq(tl, 1, i - 1) \o SubSeq(tl, i + 1, Len(tl)) \o <<tl[Len(tl)]>>

\* t.tails without its element at index i: copy, nil the last, reslice
RemoveAt(tl, i) == SubSeq(tl, 1, i - 1) \o SubSeq(tl, i + 1, Len(tl))

\* what os.Stat can return for file p: an error, and only that once the file
\* is removed
StatOf(p) == IF files[p] = Gone THEN {StatError} ELSE Stat

\* one iteration of for i < len(t.tails), in which os.Stat returns st
SweepIter(st) ==
  /\ sweepPc = "loop"
  /\ sweepI <= Len(tails)
  /\ st \in StatOf(followers[tails[sweepI]].path)
  /\ IF st.ok
     THEN IF isOlderThanADay(options, st.age)
          THEN /\ followers' = Stop(followers, tails[sweepI])
               /\ tails' = RemoveAt(tails, sweepI)
               /\ UNCHANGED sweepI
          ELSE /\ sweepI' = sweepI + 1
               /\ UNCHANGED <<followers, tails>>
     ELSE UNCHANGED <<followers, tails, sweepI>>
  /\ UNCHANGED <<options, files, followState, watcher, loopPc, endPc, endReturned,
                 sweepPc, ignored, walked>>

\* i < len(t.tails) is false: unfollowOldFiles returns
SweepDone ==
  /\ sweepPc = "loop"
  /\ sweepI > Len(tails)
  /\ sweepPc' = "idle"
  /\ sweepI' = 1
  /\ UNCHANGED <<options, files, followState, watcher, loopPc, endPc, endReturned,
                 followers, tails, ignored, walked>>

(***************************************************************************)
(* The file system.                                                        *)
(***************************************************************************)
\* a line is appended to file p
WriteLine(p) ==
  /\ files[p] < MaxLines
  /\ files' = [files EXCEPT ![p] = @ + 1]
  /\ UNCHANGED <<options, followState, watcher, loopPc, endPc, endReturned,
                 followers, tails, sweepPc, sweepI, ignored, walked>>

(***************************************************************************)
(* A Trail from construction on, over files that do not grow.              *)
(***************************************************************************)
Next ==
  \/ \E listing \in Listings, sts \in [Watched -> Stat] : FollowOk(listing, sts)
  \/ FollowErr
  \/ \E p \in Watched, op \in Ops, st \in Stat : HandleEvent(p, op, st)
  \/ EndCall
  \/ ReceiveDone
  \/ StopWatcher
  \/ StopTailers
  \/ \E f \in 1..Len(followers) : TailFileOk(f)
  \/ \E f \in 1..Len(followers) : TailFileErr(f)
  \/ \E f \in 1..Len(followers) : WriteTails(f)
  \/ \E f \in 1..Len(followers) : HandleLine(f)
  \/ \E f \in 1..Len(followers) : LinesClosed(f)
  \/ SweepStart
  \/ \E st \in Stat : SweepIter(st)
  \/ SweepDone

Spec == Init /\ [][Next]_vars

(***************************************************************************)
(* A Trail while it follows (no End, no sweep), over files that grow.      *)
(***************************************************************************)
NextLines ==
  \/ \E listing \in Listings, sts \in [Watched -> Stat] : FollowOk(listing, sts)
  \/ FollowErr
  \/ \E p \in Watched, op \in Ops, st \in Stat : HandleEvent(p, op, st)
  \/ \E f \in 1..Len(followers) : TailFileOk(f)
  \/ \E f \in 1..Len(followers) : TailFileErr(f)
  \/ \E f \in 1..Len(followers) : WriteTails(f)
  \/ \E f \in 1..Len(followers) : HandleLine(f)
  \/ \E f \in 1..Len(followers) : LinesClosed(f)
  \/ \E p \in Watched : WriteLine(p)

SpecLines == Init /\ [][NextLines]_vars

(***************************************************************************)
(* The sweep alone, over a Trail that follows up to MaxFollowers files.    *)
(***************************************************************************)
\* the files the options of WatchOptions let a Trail follow
Followable == {p \in Watched : \E st \in Stat : ~ignore(WatchOptions, p, st)}

\* a Follower that has opened its file, is in t.tails and waits for lines
Tailing(path, isNew) ==
  [NewFollower(path, isNew) EXCEPT !.pc = "lines", !.opened = TRUE,
                                   !.start = SeekOffset(isNew, InitLines),
                                   !.pos = SeekOffset(isNew, InitLines)]

\* the pools a Trail can hold after Follow: every Follower is in t.tails, in order
Pools ==
  UNION {[1..n -> {Tailing(p, m) : p \in Followable, m \in BOOLEAN}] :
           n \in 0..MaxFollowers}

\* the file systems a sweep can meet: some of the followed files are removed
SweepFiles ==
  {[p \in Paths |-> IF p \in G THEN Gone ELSE InitLines] : G \in SUBSET Followable}

InitSweep ==
  /\ options \in {[WatchOptions EXCEPT !.FileFollowDuration = d] : d \in Durations}
  /\ files \in SweepFiles
  /\ followState = "following"
  /\ walked = "ok"
  /\ watcher = [watching |-> TRUE, ended |-> FALSE]
  /\ loopPc = "running"
  /\ endPc = "idle"
  /\ endReturned = 0
  /\ followers \in Pools
  /\ tails = [i \in 1..Len(followers) |-> i]
  /\ sweepPc = "idle"
  /\ sweepI = 1
  /\ ignored = [called |-> FALSE, path |-> 1, stat |-> StatError,
                result |-> FALSE]

NextSweep ==
  \/ SweepStart
  \/ \E st \in Stat : SweepIter(st)
  \/ SweepDone

SpecSweep == InitSweep /\ [][NextSweep]_vars

(***************************************************************************)
(* ignore alone, over every Trail, path and os.Stat result.                *)
(***************************************************************************)
\* a call of ignore(t, FileNames[p]) in which os.Stat, if called, returns st
IgnoreCall(p, st) ==
  /\ ignored' = [called |-> TRUE, path |-> p, stat |-> st,
                 result |-> ignore(options, p, st)]
  /\ UNCHANGED <<options, files, followState, watcher, loopPc, endPc, endReturned,
                 followers, tails, sweepPc, sweepI, walked>>

InitIgnore ==
  /\ options \in AllOptions
  /\ files = InitFiles
  /\ InitTrail

NextIgnore == \E p \in Paths, st \in Stat : IgnoreCall(p, st)

SpecIgnore == InitIgnore /\ [][NextIgnore]_vars

(***************************************************************************)
(* A Trail whose Follow is called again after its event loop has returned  *)
(* (no sweeper).                                                           *)
(***************************************************************************)
\* Follow, called on a Trail whose event loop has returned, when Walk returns
\* listing: Follow has no guard, it follows the listed files, starts an event
\* loop and calls Watch as the first time
FollowAgain(listing, sts) ==
  /\ loopPc = "exited"
  /\ endReturned <= MaxRestarts
  /\ Len(followListed(1, listing, sts, followers)) <= MaxFollowers
  /\ followers' = followListed(1, listing, sts, followers)
  /\ loopPc' = "running"
  /\ watcher' = [watcher EXCEPT !.watching = TRUE]
  /\ followState' = "following"
  /\ walked' = "ok"
  /\ UNCHANGED <<options, files, endPc, endReturned, tails, sweepPc, sweepI, ignored>>

NextAgain ==
  \/ \E listing \in Listings, sts \in [Watched -> Stat] : FollowOk(listing, sts)
  \/ FollowErr
  \/ \E listing \in Listings, sts \in [Watched -> Stat] : FollowAgain(listing, sts)
  \/ \E p \in Watched, op \in Ops, st \in Stat : HandleEvent(p, op, st)
  \/ EndCall
  \/ ReceiveDone
  \/ StopWatcher
  \/ StopTailers
  \/ \E f \in 1..Len(followers) : TailFileOk(f)
  \/ \E f \in 1..Len(followers) : TailFileErr(f)
  \/ \E f \in 1..Len(followers) : WriteTails(f)
  \/ \E f \in 1..Len(followers) : HandleLine(f)
  \/ \E f \in 1..Len(followers) : LinesClosed(f)

SpecAgain == Init /\ [][NextAgain]_vars

(***************************************************************************)
(* The properties.                                                         *)
(***************************************************************************)
\* the handles of the pool, and the Followers, of path p
PoolOf(tl, fs, p) == {k \in 1..Len(tl) : fs[tl[k]].path = p}

FollowersOf(fs, p) == {f \in 1..Len(fs) : fs[f].path = p}

\* a Follower is active until its tailer is stopped or its goroutine returns
Active(fl) == fl.pc # "done" /\ fl.stops = 0

\* the lines a Follower has passed to the handler
Delivered(fl) == IF fl.opened THEN (fl.start + 1)..fl.pos ELSE {}

\* the ignore policy as the four rules, any of which ignores the path
ShouldIgnore(opts, p, st) ==
  \/ ~opts.PathReg.isNil /\ ~MatchDir[opts.PathReg][p]
  \/ ~opts.FileReg.isNil /\ ~MatchBase[opts.FileReg][p]
  \/ ~opts.FileIgnoreReg.isNil /\ MatchBase[opts.FileIgnoreReg][p]
  \/ st.ok /\ st.age > opts.FileIgnoreDuration

\* C1: in every reachable state the pool t.tails holds at most one handle per
\* path, so a Create event for a tracked path adds no second Follower for it
C1_OneHandlePerPath ==
  \A p \in Paths : Cardinality(PoolOf(tails, followers, p)) <= 1

\* C2: when the event loop handles a Remove event (one the policy does not
\* ignore) for a path that has a handle in the pool, every handle of that path
\* is stopped, the pool holds no handle of that path afterwards, and the
\* handles of the other paths stay in the pool, not stopped by the event
C2_RemoveStopsAndRemoves ==
  [][\A p \in Watched, st \in Stat :
       ( /\ loopPc = "running"
         /\ PoolOf(tails, followers, p) # {}
         /\ ~ShouldIgnore(options, p, st)
         /\ HandleEvent(p, "Remove", st) )
       => /\ \A k \in PoolOf(tails, followers, p) : followers'[tails[k]].stops >= 1
          /\ PoolOf(tails', followers', p) = {}
          /\ \A f \in 1..Len(followers) :
               followers[f].path # p => followers'[f] = followers[f]
          /\ \A k \in 1..Len(tails) :
               followers[tails[k]].path # p => tails[k] \in Range(tails')]_vars

\* C3: in every state after End has returned no Follower is active, and from
\* such a state no step passes a further line to the handler
C3_EndStopsEverything ==
  /\ [](endReturned >= 1 =>
          \A f \in 1..Len(followers) : ~Active(followers[f]))
  /\ [][endReturned >= 1 =>
          \A f \in 1..Len(followers) : followers'[f].pos = followers[f].pos]_vars

\* C4: after a first End has returned, a further End call is not left blocked:
\* whenever an End call waits in its send, the event loop is there to receive
C4_EndIdempotent ==
  (endReturned >= 1 /\ endPc = "sending") => loopPc = "running"

\* C5: Follow spawns, for every listed path the policy does not ignore, exactly
\* one Follower, in existing mode, and none for a listed path the policy
\* ignores; an existing-mode Follower opens at the end of its file, so it
\* passes to the handler only lines appended after that, none of the lines the
\* file held before
C5_ListedFollowedAtEnd ==
  /\ [][(followState = "new" /\ followState' = "following") =>
          \A listing \in Listings, sts \in [Watched -> Stat] :
            FollowOk(listing, sts) =>
              /\ \A p \in Paths :
                   Cardinality(FollowersOf(followers', p)) =
                     IF p \in Range(listing)
                        /\ ~ShouldIgnore(options, p, sts[p])
                     THEN 1 ELSE 0
              /\ \A f \in 1..Len(followers') :
                   ~followers'[f].isNew /\ followers'[f].pc = "open"]_vars
  /\ [][\A f \in 1..Len(followers) :
          (~followers[f].isNew /\ followers[f].pc = "open"
             /\ followers'[f].pc = "append") =>
            /\ followers'[f].start = files[followers[f].path]
            /\ followers'[f].pos = files[followers[f].path]]_vars
  /\ [](\A f \in 1..Len(followers) :
          (~followers[f].isNew /\ followers[f].opened) =>
            \A n \in Delivered(followers[f]) :
              n > InitLines /\ n > followers[f].start
                /\ n <= files[followers[f].path])

\* C5 happens: Follow has run, an existing-mode Follower of a listed file has
\* passed an appended line to the handler, and no line from before
C5_Witness ==
  /\ followState = "following"
  /\ \E f \in 1..Len(followers) :
       /\ ~followers[f].isNew
       /\ followers[f].start >= InitLines
       /\ Delivered(followers[f]) # {}

\* C6 as stated: a Create event on a path the policy does not ignore spawns
\* one new-mode Follower for it, and that Follower is inserted into the pool:
\* a new-mode Follower that is past its start has had its handle put in t.tails,
\* which tail.TailFile must have returned
C6_CreateInserted ==
  /\ [][\A p \in Watched, st \in Stat :
          (loopPc = "running" /\ ~ShouldIgnore(options, p, st)
             /\ HandleEvent(p, "Create", st)) =>
            /\ Len(followers') = Len(followers) + 1
            /\ followers'[Len(followers')].path = p
            /\ followers'[Len(followers')].isNew]_vars
  /\ [](\A f \in 1..Len(followers) :
          (followers[f].isNew /\ followers[f].pc \in {"lines", "done"}) =>
            followers[f].opened)

\* C6, amended: a Create event on a path the policy does not ignore spawns
\* exactly one Follower for it, in new mode, and leaves the pool as it is; a
\* Create event on an ignored path spawns nothing; the Follower opens at the
\* start of its file and its goroutine appends its handle to the pool once
\* tail.TailFile has returned a tailer, and only then
C6_CreateSpawnsNewMode ==
  /\ [][\A p \in Watched, st \in Stat :
          (loopPc = "running" /\ HandleEvent(p, "Create", st)) =>
            /\ tails' = tails
            /\ IF ShouldIgnore(options, p, st)
               THEN followers' = followers
               ELSE /\ Len(followers') = Len(followers) + 1
                    /\ SubSeq(followers', 1, Len(followers)) = followers
                    /\ followers'[Len(followers')].path = p
                    /\ followers'[Len(followers')].isNew
                    /\ followers'[Len(followers')].pc = "open"]_vars
  /\ [][\A f \in 1..Len(followers) :
          /\ (followers[f].pc = "append" /\ followers'[f].pc = "lines") =>
               /\ followers[f].opened
               /\ Len(tails') >= 1 /\ tails'[Len(tails')] = f
               /\ Cardinality({k \in 1..Len(tails') : tails'[k] = f}) = 1
          /\ (followers[f].pc = "open" /\ followers'[f].pc = "done") =>
               /\ ~followers'[f].opened
               /\ tails' = tails]_vars
  /\ [](\A f \in 1..Len(followers) :
          /\ (followers[f].isNew /\ followers[f].opened) => followers[f].start = 0
          /\ ~followers[f].opened => f \notin Range(tails))

\* C6 happens: a Follower spawned by a Create event has opened its file at the
\* start and its handle is in the pool
C6_Witness ==
  \E f \in 1..Len(followers) :
    /\ followers[f].isNew
    /\ followers[f].opened /\ followers[f].start = 0
    /\ f \in Range(tails)

\* C7 as stated: with FileFollowDuration = 0, when a sweep tick ends the pool is
\* empty and every handle has been stopped exactly once
C7_SweepEmptiesPool ==
  [][(options.FileFollowDuration = 0 /\ sweepPc = "loop" /\ sweepPc' = "idle") =>
       /\ tails' = <<>>
       /\ \A f \in 1..Len(followers) : followers'[f].stops = 1]_vars

\* C7, amended: with FileFollowDuration = 0, an iteration of the tick whose
\* os.Stat succeeds evicts the handle it examines (one Stop, removed from the
\* pool, the others untouched) when the file's age is above 0, and keeps it and
\* moves on when the age is not above 0; so a handle is out of the pool exactly
\* when it was stopped, once, and the tick ends having examined every handle
C7_SweepEvictsOlderThanZero ==
  /\ [][\A st \in Stat :
          (options.FileFollowDuration = 0 /\ sweepPc = "loop" /\ st.ok
             /\ SweepIter(st)) =>
            IF st.age > 0
            THEN /\ tails' = RemoveAt(tails, sweepI)
                 /\ followers'[tails[sweepI]].stops = followers[tails[sweepI]].stops + 1
                 /\ \A f \in 1..Len(followers) :
                      f # tails[sweepI] => followers'[f] = followers[f]
                 /\ sweepI' = sweepI
            ELSE /\ tails' = tails /\ followers' = followers
                 /\ sweepI' = sweepI + 1]_vars
  /\ [][(options.FileFollowDuration = 0 /\ sweepPc = "loop" /\ sweepPc' = "idle") =>
          /\ sweepI = Len(tails) + 1
          /\ tails' = tails /\ followers' = followers]_vars
  /\ [](options.FileFollowDuration = 0 =>
          \A f \in 1..Len(followers) :
            /\ Cardinality({k \in 1..Len(tails) : tails[k] = f}) <= 1
            /\ followers[f].stops = IF f \in Range(tails) THEN 0 ELSE 1)

\* C7 happens: with FileFollowDuration = 0 a tick has ended that evicted a
\* handle, stopped once, and kept another whose file was not older than 0
C7_Witness ==
  /\ options.FileFollowDuration = 0
  /\ sweepPc = "idle"
  /\ \E f \in 1..Len(followers) : f \notin Range(tails) /\ followers[f].stops = 1
  /\ \E f \in 1..Len(followers) : f \in Range(tails) /\ followers[f].stops = 0

\* C8: ignore returns true exactly when one of the four rules holds (directory
\* not matching PathReg, base name not matching FileReg, base name matching
\* FileIgnoreReg, age above FileIgnoreDuration); when os.Stat fails the three
\* regexp rules decide alone; and with /app/logs, \.log$ and \.tmp$ and no age
\* rule, /app/logs/a.tmp is ignored, /app/logs/a.log is not, /other/b.log is
C8_IgnoreIsAnyRule ==
  ignored.called =>
    LET name == FileNames[ignored.path]
        st == ignored.stat
        r1 == ~options.PathReg.isNil /\ ~MatchString(options.PathReg, Dir(name))
        r2 == ~options.FileReg.isNil /\ ~MatchString(options.FileReg, Base(name))
        r3 == ~options.FileIgnoreReg.isNil
                /\ MatchString(options.FileIgnoreReg, Base(name))
        r4 == st.ok /\ st.age > options.FileIgnoreDuration
    IN  /\ ignored.result = (r1 \/ r2 \/ r3 \/ r4)
        /\ ~st.ok => ignored.result = (r1 \/ r2 \/ r3)
        /\ ( /\ options.PathReg = AppLogsReg /\ options.FileReg = DotLogReg
             /\ options.FileIgnoreReg = DotTmpReg /\ ~r4 ) =>
             /\ name = <<"/","a","p","p","/","l","o","g","s","/","a",".","t","m","p">>
                  => ignored.result
             /\ name = <<"/","a","p","p","/","l","o","g","s","/","a",".","l","o","g">>
                  => ~ignored.result
             /\ name = <<"/","o","t","h","e","r","/","b",".","l","o","g">>
                  => ignored.result

\* C8 happens: ignore was called on /app/logs/a.log with the three regexps set
\* and a failing os.Stat, and did not ignore it
C8_Witness ==
  /\ ignored.called
  /\ options.PathReg = AppLogsReg /\ options.FileReg = DotLogReg
  /\ options.FileIgnoreReg = DotTmpReg
  /\ FileNames[ignored.path] =
       <<"/","a","p","p","/","l","o","g","s","/","a",".","l","o","g">>
  /\ ~ignored.stat.ok
  /\ ~ignored.result

\* C9: Follow returns an error exactly when Walk failed, and then no Follower
\* was started, the pool is empty, no event loop runs and Watch was not called
C9_FollowFailsOnlyOnWalkError ==
  /\ (followState = "failed") = (walked = "error")
  /\ walked = "ok" => followState = "following"
  /\ followState = "failed" =>
       /\ followers = <<>>
       /\ tails = <<>>
       /\ loopPc = "none"
       /\ ~watcher.watching /\ ~watcher.ended

\* C9 happens: Walk failed and Follow returned the error
C9_Witness ==
  /\ walked = "error"
  /\ followState = "failed"

\* C10: no line of a file goes to the handler twice: the lines two Followers of
\* one path have delivered are disjoint (a Follower delivers its own lines in
\* file order, one at a time)
C10_EachLineOnce ==
  \A f, g \in 1..Len(followers) :
    (f < g /\ followers[f].path = followers[g].path) =>
      Delivered(followers[f]) \cap Delivered(followers[g]) = {}

\* C11: the sweeper lives no longer than the Trail: once the shutdown of End has
\* run to its end, no sweep tick starts and no iteration of a tick stops a
\* tailer or changes the pool
C11_SweeperEndsWithTrail ==
  [][loopPc = "exited" =>
       /\ ~SweepStart
       /\ \A st \in Stat : ~SweepIter(st)]_vars

\* the Followers that have read t.tails for their append and not yet written it
Appending == {f \in 1..Len(followers) : followers[f].pc = "append"}

\* C12: the accesses to the pool are serialised: at most one of the sweeper (in
\* its loop over t.tails) and the Followers (between the read and the write of
\* their append) is at work on t.tails at a time; so an append adds its handle
\* to the pool as it is, losing no insertion and undoing no removal, and the
\* pool changes under a running sweep by the sweep's own iterations only
C12_PoolSerialized ==
  /\ [](Cardinality(Appending) + (IF sweepPc = "loop" THEN 1 ELSE 0) <= 1)
  /\ [][\A f \in 1..Len(followers) :
          (followers[f].pc = "append" /\ followers'[f].pc = "lines") =>
            tails' = Append(tails, f)]_vars
  /\ [][(sweepPc = "loop" /\ tails' # tails) =>
          \E st \in Stat : SweepIter(st)]_vars

\* the steps of the event loop, in order
LoopSteps ==
  {<<"none", "running">>, <<"running", "shutdown">>, <<"shutdown", "stopping">>,
   <<"stopping", "exited">>}

\* C13: on the shutdown signal the event loop stops the Watcher, then stops
\* every Follower in the pool, then returns, in this order; this is terminal:
\* once the loop has received the signal it handles no event, and once it has
\* returned it is never running again
C13_ShutdownOrderTerminal ==
  /\ [][loopPc' # loopPc => <<loopPc, loopPc'>> \in LoopSteps]_vars
  /\ [][(loopPc = "shutdown" /\ loopPc' = "stopping") =>
          /\ watcher'.ended /\ ~watcher'.watching
          /\ followers' = followers]_vars
  /\ [][(loopPc = "stopping" /\ loopPc' = "exited") =>
          \A k \in 1..Len(tails) : followers'[tails[k]].stops >= 1]_vars
  /\ [][(loopPc # "none" /\ loopPc # "running") =>
          \A p \in Watched, op \in Ops, st \in Stat : ~HandleEvent(p, op, st)]_vars

\* C14: End reaches every child: when the shutdown it starts has run to its end,
\* the Watcher is ended and every Follower the Trail ever spawned is stopped (or
\* has returned), also one that had not opened its tailer, or not put it in the
\* pool, when the loop went over the pool; after that nothing acts for End
C14_EndReachesEveryFollower ==
  loopPc = "exited" =>
    /\ watcher.ended
    /\ \A f \in 1..Len(followers) :
         followers[f].stops >= 1 \/ followers[f].pc = "done"

\* C15: a sweep tick never stalls: whatever os.Stat returns, a tick that is in
\* its loop has a step to take that moves it on (to evict the handle it is at,
\* to pass to the next one, or to end)
C15_SweepNeverStalls ==
  sweepPc = "loop" => ENABLED <<NextSweep>>_vars

\* C16: a sweep tick evicts exactly the handles whose file is older than
\* FileFollowDuration: an iteration whose os.Stat succeeds stops and removes the
\* handle it is at when the age is above the threshold, leaving the others as
\* they are and in their order, and leaves the pool and every tailer untouched
\* when it is not; the pool never holds an entry that is no handle, nor a handle
\* twice, nor a stopped one, and a tick ends only past the last handle
C16_SweepEvictsExactlyTheOld ==
  /\ [][\A st \in Stat :
          (sweepPc = "loop" /\ st.ok /\ SweepIter(st)) =>
            IF st.age > options.FileFollowDuration
            THEN /\ Len(tails') = Len(tails) - 1
                 /\ \A k \in 1..Len(tails') :
                      tails'[k] = IF k < sweepI THEN tails[k] ELSE tails[k + 1]
                 /\ followers'[tails[sweepI]].stops = 1
                 /\ \A f \in 1..Len(followers) :
                      f # tails[sweepI] => followers'[f] = followers[f]
            ELSE /\ tails' = tails
                 /\ followers' = followers
                 /\ sweepI' = sweepI + 1]_vars
  /\ [][(sweepPc = "loop" /\ sweepPc' = "idle") =>
          /\ sweepI > Len(tails)
          /\ tails' = tails /\ followers' = followers]_vars
  /\ [](/\ \A k \in 1..Len(tails) : tails[k] \in 1..Len(followers)
        /\ \A j, k \in 1..Len(tails) : j # k => tails[j] # tails[k]
        /\ \A f \in 1..Len(followers) :
             followers[f].stops = IF f \in Range(tails) THEN 0 ELSE 1)

\* C16 happens: with a threshold above 0 a tick has ended that evicted the
\* handle of a file older than the threshold and kept the one of a file within it
C16_Witness ==
  /\ options.FileFollowDuration > 0
  /\ sweepPc = "idle"
  /\ Len(followers) >= 2
  /\ \E f, g \in 1..Len(followers) :
       /\ f \notin Range(tails) /\ followers[f].stops = 1
       /\ g \in Range(tails) /\ followers[g].stops = 0

\* C17: the pool never keeps the handle of a Follower that has terminated: when
\* the tailer fails or its lines end, the Follower's goroutine returns and its
\* handle is out of the pool
C17_TerminatedNotInPool ==
  \A k \in 1..Len(tails) : followers[tails[k]].pc # "done"

\* a path is Stopped once a Follower of it has been stopped
Stopped(p) == \E f \in FollowersOf(followers, p) : followers[f].stops >= 1

\* C18: Stopped is terminal for a path: once a Follower of the path has been
\* stopped, no event the loop handles, a Create event for that path included,
\* starts a Follower for it again
C18_StoppedIsTerminal ==
  [][\A p \in Watched :
       Stopped(p) => FollowersOf(followers', p) = FollowersOf(followers, p)]_vars

\* C19: handling a Rename, a Write or another event changes neither the pool
\* nor any Follower: none is spawned, none is stopped, t.tails is the same
\* sequence, whether the path is tracked or not, ignored or not (a step that
\* changes a Follower or the pool is the handling of no such event)
C19_OtherEventsLeavePool ==
  [][\/ (followers' = followers /\ tails' = tails)
     \/ \A p \in Watched, op \in Ops \ {"Create", "Remove"}, st \in Stat :
          ~HandleEvent(p, op, st)]_vars

\* C19 happens: the loop is running and handles Write events for a path that is
\* tracked, for one that is not, and for one that is ignored
C19_Witness ==
  /\ tails # <<>>
  /\ \E p, q, r \in Watched :
       /\ PoolOf(tails, followers, p) # {}
       /\ FollowersOf(followers, q) = {}
       /\ ~ignore(options, q, StatError)
       /\ ignore(options, r, StatError)
       /\ ENABLED HandleEvent(p, "Write", StatError)
       /\ ENABLED HandleEvent(q, "Write", StatError)
       /\ ENABLED HandleEvent(r, "Write", StatError)

\* C20: a Remove event handled after a Create event of the same path stops the
\* Follower that Create spawned and leaves no handle of the path in the pool,
\* wherever the Follower's goroutine is with its tailer: in every state in
\* which the loop takes events, what unfollowFile does for a path leaves each
\* Follower a Create event spawned for it stopped (or returned) and the pool
\* without the path
C20_RemoveAfterCreate ==
  (loopPc = "running" /\ watcher.watching) =>
    \A p \in Watched :
      LET r == unfollowFile(tails, followers, p)
      IN  /\ \A f \in FollowersOf(followers, p) :
               followers[f].isNew =>
                 (r.followers[f].stops >= 1 \/ r.followers[f].pc = "done")
          /\ (\E f \in FollowersOf(followers, p) : followers[f].isNew) =>
               PoolOf(r.tails, r.followers, p) = {}

\* C21: End is a rendezvous with the event loop on t.done. An End call returns
\* only in the step in which the running loop receives the signal, and that
\* step is the return: the loop leaves its select for the shutdown, the Watcher
\* is not yet ended and no Follower is yet stopped. While no loop is there to
\* receive (Follow not called, Follow returned the error of Walk, or the loop
\* has left its select), an End call stays blocked in its send
C21_EndIsRendezvous ==
  /\ [][endReturned' # endReturned =>
          /\ endPc = "sending" /\ endPc' = "idle"
          /\ endReturned' = endReturned + 1
          /\ loopPc = "running" /\ loopPc' = "shutdown"
          /\ watcher' = watcher
          /\ followers' = followers
          /\ tails' = tails]_vars
  /\ [][(loopPc = "running" /\ loopPc' # "running") =>
          (endPc = "sending" /\ endReturned' = endReturned + 1)]_vars
  /\ [][(endPc = "sending" /\ loopPc # "running") =>
          (endPc' = "sending" /\ endReturned' = endReturned)]_vars
  /\ [](followState # "following" => loopPc = "none")

\* C21 happens: a first End has returned while the Watcher is not yet ended and
\* a Follower of the pool is not yet stopped, and a further End call is blocked
\* in its send, the loop being past its select
C21_Witness ==
  /\ endReturned >= 1
  /\ loopPc = "shutdown"
  /\ watcher.watching /\ ~watcher.ended
  /\ \E k \in 1..Len(tails) : Active(followers[tails[k]])
  /\ endPc = "sending"

\* C22: Stop is called at most once on the tailer of each Follower, whatever
\* Remove events, sweep ticks and shutdown the Trail goes through: a handle one
\* of them has stopped is not stopped again
C22_StopAtMostOnce ==
  \A f \in 1..Len(followers) : followers[f].stops <= 1

====
